---- MODULE Spec2Model ----
(***************************************************************************)
(* Grocery list storage: the file-backed store (FileStorage) and the       *)
(* in-memory store (MemStorage) behind the IStorage interface.             *)
(*                                                                         *)
(* Both stores are driven by the same sequence of IStorage calls; each     *)
(* call is one action, which runs the whole method (the trailing           *)
(* saveData() of FileStorage included) on both stores and records both     *)
(* return values.  getCategoriesWithItems, the one method with awaits in   *)
(* its body, is also modelled one await at a time (SpecAwait), with the    *)
(* calls of other requests running in between.                             *)
(*                                                                         *)
(* Encoding of JavaScript values:                                          *)
(*   - an object is a record; a key that is absent from the object is      *)
(*     absent from the record's DOMAIN (so `undefined` = key not present); *)
(*   - null is modelled for the nullable integer columns (order,           *)
(*     categoryId, quantity, colorState) by Null; the payloads used here   *)
(*     never carry null in a boolean or text column;                       *)
(*   - an array is a sequence (filter is SelectSeq); a Map is a sequence   *)
(*     in insertion order.                                                 *)
(***************************************************************************)
EXTENDS Integers, Sequences, FiniteSets, TLC

VARIABLES
    data,     \* FileStorage.data: the parsed snapshot held in memory
    file,     \* content of the backing file ./data/storage.json
    mem,      \* MemStorage: categories and items Maps and the two counters
    call,     \* the IStorage call that ran last: name, id, payload, write outcome
    ret,      \* what FileStorage returned for it
    mret,     \* what MemStorage returned for it
    issued,   \* ids handed out by FileStorage creates since the process started
    clean,    \* no snapshot write has failed since the process started
    nops,     \* number of calls and starts made so far
    faults,   \* number of snapshot writes that failed so far
    restarts, \* number of times the process was started again
    view,     \* the getCategoriesWithItems call of FileStorage that is in flight
    mview,    \* the getCategoriesWithItems call of MemStorage that is in flight
    requests, \* the create calls whose callers await, or have got, the promise
    seen,     \* the views of the store states that have existed since the
              \* getCategoriesWithItems call in flight started, per store
    dir,      \* path.dirname(this.filePath) on disk: "absent", "present"
              \* (it was there when the process started) or "created"
    row,      \* one rendered ItemRow: its `item` prop and the updates it has
              \* sent that are not stored yet
    press     \* the useLongPress hook of the row: timeoutRef and the timers

vars == <<data, file, mem, call, ret, mret, issued, clean, nops, faults, restarts,
          view, mview, requests, seen, dir, row, press>>

(***************************************************************************)
(* Bounds                                                                  *)
(***************************************************************************)
MaxOps == 3
MaxFaults == 1

(***************************************************************************)
(* JavaScript values                                                       *)
(***************************************************************************)
Null == -1
NaN == -2

\* { ...base, ...patch }
Spread(base, patch) ==
    [k \in (DOMAIN base) \cup (DOMAIN patch) |->
        IF k \in DOMAIN patch THEN patch[k] ELSE base[k]]

\* obj.k ?? def, for the integer columns (null and undefined give def)
CoalesceInt(obj, k, def) ==
    IF k \in DOMAIN obj /\ obj[k] # Null THEN obj[k] ELSE def

\* obj.k ?? def, for the boolean and text columns (never null here)
Coalesce(obj, k, def) ==
    IF k \in DOMAIN obj THEN obj[k] ELSE def

\* obj.k = v, assigning one property
SetField(obj, k, v) ==
    [f \in (DOMAIN obj) \cup {k} |-> IF f = k THEN v ELSE obj[f]]

\* (a.order || 0): null, undefined and 0 all count as 0
OrderKey(e) ==
    IF "order" \in DOMAIN e /\ e.order # Null THEN e.order ELSE 0

\* Array.prototype.sort((a, b) => (a.order || 0) - (b.order || 0)): a stable
\* sort, so element i goes behind every element with a smaller key and behind
\* the elements with an equal key that precede it in the array.
SortByOrder(s) ==
    LET rank == [i \in 1..Len(s) |->
                    Cardinality({j \in 1..Len(s) :
                        \/ OrderKey(s[j]) < OrderKey(s[i])
                        \/ OrderKey(s[j]) = OrderKey(s[i]) /\ j < i}) + 1]
    IN  [p \in 1..Len(s) |-> s[CHOOSE i \in 1..Len(s) : rank[i] = p]]

\* Array.prototype.findIndex, 1-based; 0 stands for -1
FindIndex(s, id) ==
    IF \E i \in 1..Len(s) : s[i].id = id
    THEN CHOOSE i \in 1..Len(s) :
            s[i].id = id /\ \A j \in 1..(i - 1) : s[j].id # id
    ELSE 0

\* Array.prototype.splice(index, 1)
Splice(s, i) == SubSeq(s, 1, i - 1) \o SubSeq(s, i + 1, Len(s))

(***************************************************************************)
(* Return values                                                           *)
(***************************************************************************)
Entity(e)   == [out |-> "entity", val |-> <<e>>]
List(s)     == [out |-> "list", val |-> s]
Undefined   == [out |-> "undefined", val |-> <<>>]
Bool(b)     == [out |-> IF b THEN "true" ELSE "false", val |-> <<>>]
Throws      == [out |-> "throw", val |-> <<>>]
NoReturn    == [out |-> "none", val |-> <<>>]

(***************************************************************************)
(* The seed dataset                                                        *)
(***************************************************************************)
SeedCategoryInserts == <<
    [name |-> "Fruits & Vegetables", isExpanded |-> TRUE, order |-> 0],
    [name |-> "Dairy & Eggs", isExpanded |-> TRUE, order |-> 1],
    [name |-> "Pantry", isExpanded |-> FALSE, order |-> 2] >>

SeedItemInserts == <<
    [categoryId |-> 1, name |-> "Bananas", quantity |-> 6, unit |-> "Nos.", referencePrice |-> "$4.99", colorState |-> 0, checked |-> FALSE, order |-> 0],
    [categoryId |-> 1, name |-> "Apples", quantity |-> 1, unit |-> "Kgs.", referencePrice |-> "$3.50", colorState |-> 1, checked |-> FALSE, order |-> 1],
    [categoryId |-> 1, name |-> "Carrots", quantity |-> 500, unit |-> "Gms.", referencePrice |-> "$2.99", colorState |-> 2, checked |-> FALSE, order |-> 2],
    [categoryId |-> 1, name |-> "Onions", quantity |-> 2, unit |-> "Kgs.", referencePrice |-> "$1.50", colorState |-> 3, checked |-> FALSE, order |-> 3],
    [categoryId |-> 1, name |-> "Tomatoes", quantity |-> 750, unit |-> "Gms.", referencePrice |-> "$3.99", colorState |-> 0, checked |-> FALSE, order |-> 4],
    [categoryId |-> 2, name |-> "Milk", quantity |-> 2, unit |-> "Nos.", referencePrice |-> "$5.99", colorState |-> 1, checked |-> FALSE, order |-> 0],
    [categoryId |-> 2, name |-> "Eggs", quantity |-> 12, unit |-> "Nos.", referencePrice |-> "$4.50", colorState |-> 2, checked |-> FALSE, order |-> 1],
    [categoryId |-> 2, name |-> "Cheese", quantity |-> 250, unit |-> "Gms.", referencePrice |-> "$7.99", colorState |-> 3, checked |-> FALSE, order |-> 2] >>

\* the seed dataset with both counters starting at 1
getDefaultData_countersFromOne ==
    [categories |-> [i \in 1..3 |-> Spread(SeedCategoryInserts[i], [id |-> i])],
     items |-> [i \in 1..8 |-> Spread(SeedItemInserts[i], [id |-> i])],
     currentCategoryId |-> 1,
     currentItemId |-> 1]

getDefaultData ==
    [categories |-> [i \in 1..3 |-> Spread(SeedCategoryInserts[i], [id |-> i])],
     items |-> [i \in 1..8 |-> Spread(SeedItemInserts[i], [id |-> i])],
     currentCategoryId |-> 4,
     currentItemId |-> 9]

(***************************************************************************)
(* The backing file and JSON                                               *)
(*                                                                         *)
(* A file is absent, unreadable (readFileSync throws), text that is not    *)
(* JSON (which includes an empty or truncated file), or JSON text.  JSON   *)
(* text is modelled by its syntax tree: an object is the sequence of its   *)
(* <<key, value>> members, an array is a sequence.                         *)
(***************************************************************************)
Absent      == [kind |-> "absent", value |-> <<>>]
Unreadable  == [kind |-> "unreadable", value |-> <<>>]
NotJSON     == [kind |-> "notjson", value |-> <<>>]
JSONText(v) == [kind |-> "json", value |-> v]

\* the file `{}`: JSON, but not a snapshot
EmptyObjectFile == JSONText(<<>>)

KeyOrder == <<"id", "categoryId", "name", "quantity", "unit", "referencePrice",
              "colorState", "checked", "isExpanded", "order">>

\* JSON.stringify of one entity: its own keys with their values
StringifyObject(obj) ==
    LET keys == SelectSeq(KeyOrder, LAMBDA k : k \in DOMAIN obj)
    IN  [i \in 1..Len(keys) |-> <<keys[i], obj[keys[i]]>>]

\* JSON.parse of one object: the last member with a key gives its value
ParseObject(members) ==
    [k \in {members[i][1] : i \in 1..Len(members)} |->
        members[CHOOSE i \in 1..Len(members) :
                    /\ members[i][1] = k
                    /\ \A j \in (i + 1)..Len(members) : members[j][1] # k][2]]

\* JSON.stringify(this.data, null, 2)
JSONstringify(d) ==
    << <<"categories", [i \in 1..Len(d.categories) |-> StringifyObject(d.categories[i])]>>,
       <<"items", [i \in 1..Len(d.items) |-> StringifyObject(d.items[i])]>>,
       <<"currentCategoryId", d.currentCategoryId>>,
       <<"currentItemId", d.currentItemId>> >>

\* JSON.parse(fileContent)
JSONparse(v) ==
    LET top == ParseObject(v)
    IN  [k \in DOMAIN top |->
            IF k \in {"categories", "items"}
            THEN [i \in 1..Len(top[k]) |-> ParseObject(top[k][i])]
            ELSE top[k]]

\* the outcomes of fs.mkdirSync(dir, { recursive: true })
MkdirOutcomes == {"ok", "throws"}

ensureDirectoryExists_noMkdir(d, mk) ==
    [dir |-> d, out |-> "undefined"]

\* ensureDirectoryExists(): the directory is made when existsSync says it is
\* not there; mkdirSync is not inside a try
ensureDirectoryExists(d, mk) ==
    IF d # "absent"
    THEN [dir |-> d, out |-> "undefined"]
    ELSE IF mk = "ok"
    THEN [dir |-> "created", out |-> "undefined"]
    ELSE [dir |-> "absent", out |-> "throws"]

\* loadData that takes the entities from the file and starts the counters
\* at their seed values
loadData_seedCounters(f) ==
    IF f.kind = "json"
    THEN Spread(JSONparse(f.value), [currentCategoryId |-> 4, currentItemId |-> 9])
    ELSE getDefaultData

\* FileStorage.loadData: the parsed file when it exists, can be read and
\* parses; the seed dataset otherwise.  The parsed value is not inspected.
loadData(f) ==
    IF f.kind = "json" THEN JSONparse(f.value) ELSE getDefaultData

\* FileStorage.saveData: writeFileSync either replaces the file by the
\* snapshot ("ok"), fails before touching the file ("fail"), or fails after
\* the file was opened for writing and truncated ("torn"); the error is
\* caught and logged.
WriteOutcomes == {"ok", "fail", "torn"}

\* saveData that rewrites the items of the file and leaves the file's
\* categories as they are
saveData_itemsOnly(d, f, w) ==
    CASE w = "ok"   -> IF f.kind = "json"
                       THEN JSONText(JSONstringify(
                                [d EXCEPT !.categories = JSONparse(f.value).categories]))
                       ELSE JSONText(JSONstringify(d))
      [] w = "fail" -> f
      [] w = "torn" -> NotJSON

saveData(d, f, w) ==
    CASE w = "ok"   -> JSONText(JSONstringify(d))
      [] w = "fail" -> f
      [] w = "torn" -> NotJSON

\* this.data has the two arrays (false for the file `{}`)
HasArrays(d) == {"categories", "items"} \subseteq DOMAIN d

(***************************************************************************)
(* FileStorage                                                             *)
(* Each method gives the new this.data, the return value and whether       *)
(* saveData() was reached.                                                 *)
(***************************************************************************)
Done(d, r, s) == [data |-> d, ret |-> r, save |-> s]

\* a TypeError from this.data.categories / this.data.items being undefined
TypeError(d) == Done(d, Throws, FALSE)

getCategories(d) ==
    IF ~HasArrays(d) THEN TypeError(d)
    ELSE LET sorted == SortByOrder(d.categories)
         IN  Done([d EXCEPT !.categories = sorted], List(sorted), FALSE)

getCategoryById(d, id) ==
    IF ~HasArrays(d) THEN TypeError(d)
    ELSE LET index == FindIndex(d.categories, id)
         IN  Done(d, IF index = 0 THEN Undefined ELSE Entity(d.categories[index]), FALSE)

\* createCategory taking the next id from the size of the collection
createCategory_idFromLength(d, insertCategory) ==
    IF ~HasArrays(d)
    THEN TypeError(SetField(d, "currentCategoryId", NaN))
    ELSE LET id == Len(d.categories) + 1
             category == Spread(insertCategory,
                            [id |-> id,
                             order |-> CoalesceInt(insertCategory, "order", 0),
                             isExpanded |-> Coalesce(insertCategory, "isExpanded", TRUE)])
         IN  Done([d EXCEPT !.currentCategoryId = id + 1,
                            !.categories = Append(@, category)],
                  Entity(category), TRUE)

\* createCategory that leaves currentCategoryId as it is
createCategory_keepCounter(d, insertCategory) ==
    IF ~HasArrays(d)
    THEN TypeError(d)
    ELSE LET id == d.currentCategoryId
             category == Spread(insertCategory,
                            [id |-> id,
                             order |-> CoalesceInt(insertCategory, "order", 0),
                             isExpanded |-> Coalesce(insertCategory, "isExpanded", TRUE)])
         IN  Done([d EXCEPT !.categories = Append(@, category)],
                  Entity(category), TRUE)

createCategory(d, insertCategory) ==
    IF ~HasArrays(d)
    THEN TypeError(SetField(d, "currentCategoryId", NaN))
    ELSE LET id == d.currentCategoryId
             category == Spread(insertCategory,
                            [id |-> id,
                             order |-> CoalesceInt(insertCategory, "order", 0),
                             isExpanded |-> Coalesce(insertCategory, "isExpanded", TRUE)])
         IN  Done([d EXCEPT !.currentCategoryId = id + 1,
                            !.categories = Append(@, category)],
                  Entity(category), TRUE)

updateCategory(d, id, patch) ==
    IF ~HasArrays(d) THEN TypeError(d)
    ELSE LET index == FindIndex(d.categories, id)
         IN  IF index = 0 THEN Done(d, Undefined, FALSE)
             ELSE LET updated == Spread(d.categories[index], patch)
                  IN  Done([d EXCEPT !.categories[index] = updated],
                           Entity(updated), TRUE)

\* deleteCategory that also removes the items that have no category
deleteCategory_andUncategorised(d, id) ==
    IF ~HasArrays(d) THEN TypeError(d)
    ELSE LET categoryIndex == FindIndex(d.categories, id)
         IN  IF categoryIndex = 0 THEN Done(d, Bool(FALSE), FALSE)
             ELSE Done([d EXCEPT
                          !.items = SelectSeq(@, LAMBDA item :
                                        item.categoryId # id /\ item.categoryId # Null),
                          !.categories = Splice(@, categoryIndex)],
                       Bool(TRUE), TRUE)

\* deleteCategory that leaves the category's items in place
deleteCategory_noCascade(d, id) ==
    IF ~HasArrays(d) THEN TypeError(d)
    ELSE LET categoryIndex == FindIndex(d.categories, id)
         IN  IF categoryIndex = 0 THEN Done(d, Bool(FALSE), FALSE)
             ELSE Done([d EXCEPT !.categories = Splice(@, categoryIndex)],
                       Bool(TRUE), TRUE)

deleteCategory(d, id) ==
    IF ~HasArrays(d) THEN TypeError(d)
    ELSE LET categoryIndex == FindIndex(d.categories, id)
         IN  IF categoryIndex = 0 THEN Done(d, Bool(FALSE), FALSE)
             ELSE Done([d EXCEPT
                          !.items = SelectSeq(@, LAMBDA item : item.categoryId # id),
                          !.categories = Splice(@, categoryIndex)],
                       Bool(TRUE), TRUE)

getItems(d) ==
    IF ~HasArrays(d) THEN TypeError(d)
    ELSE LET sorted == SortByOrder(d.items)
         IN  Done([d EXCEPT !.items = sorted], List(sorted), FALSE)

getItemsByCategory(d, categoryId) ==
    IF ~HasArrays(d) THEN TypeError(d)
    ELSE Done(d, List(SortByOrder(SelectSeq(d.items,
                        LAMBDA item : item.categoryId = categoryId))), FALSE)

getItemById(d, id) ==
    IF ~HasArrays(d) THEN TypeError(d)
    ELSE LET index == FindIndex(d.items, id)
         IN  Done(d, IF index = 0 THEN Undefined ELSE Entity(d.items[index]), FALSE)

\* createItem that leaves currentItemId as it is
createItem_keepCounter(d, insertItem) ==
    IF ~HasArrays(d)
    THEN TypeError(d)
    ELSE LET id == d.currentItemId
             item == Spread(insertItem,
                        [id |-> id,
                         order |-> CoalesceInt(insertItem, "order", 0),
                         categoryId |-> CoalesceInt(insertItem, "categoryId", Null),
                         quantity |-> CoalesceInt(insertItem, "quantity", 1),
                         unit |-> Coalesce(insertItem, "unit", "Nos."),
                         referencePrice |-> Coalesce(insertItem, "referencePrice", ""),
                         colorState |-> CoalesceInt(insertItem, "colorState", 0),
                         checked |-> Coalesce(insertItem, "checked", FALSE)])
         IN  Done([d EXCEPT !.items = Append(@, item)], Entity(item), TRUE)

\* createItem that stores null for a categoryId that no category has
createItem_knownCategory(d, insertItem) ==
    IF ~HasArrays(d)
    THEN TypeError(SetField(d, "currentItemId", NaN))
    ELSE LET id == d.currentItemId
             given == CoalesceInt(insertItem, "categoryId", Null)
             item == Spread(insertItem,
                        [id |-> id,
                         order |-> CoalesceInt(insertItem, "order", 0),
                         categoryId |-> IF FindIndex(d.categories, given) = 0
                                        THEN Null ELSE given,
                         quantity |-> CoalesceInt(insertItem, "quantity", 1),
                         unit |-> Coalesce(insertItem, "unit", "Nos."),
                         referencePrice |-> Coalesce(insertItem, "referencePrice", ""),
                         colorState |-> CoalesceInt(insertItem, "colorState", 0),
                         checked |-> Coalesce(insertItem, "checked", FALSE)])
         IN  Done([d EXCEPT !.currentItemId = id + 1,
                            !.items = Append(@, item)],
                  Entity(item), TRUE)

\* createItem that stores the payload with the id and fills in nothing
createItem_noDefaults(d, insertItem) ==
    IF ~HasArrays(d)
    THEN TypeError(SetField(d, "currentItemId", NaN))
    ELSE LET id == d.currentItemId
             item == Spread(insertItem, [id |-> id])
         IN  Done([d EXCEPT !.currentItemId = id + 1,
                            !.items = Append(@, item)],
                  Entity(item), TRUE)

createItem(d, insertItem) ==
    IF ~HasArrays(d)
    THEN TypeError(SetField(d, "currentItemId", NaN))
    ELSE LET id == d.currentItemId
             item == Spread(insertItem,
                        [id |-> id,
                         order |-> CoalesceInt(insertItem, "order", 0),
                         categoryId |-> CoalesceInt(insertItem, "categoryId", Null),
                         quantity |-> CoalesceInt(insertItem, "quantity", 1),
                         unit |-> Coalesce(insertItem, "unit", "Nos."),
                         referencePrice |-> Coalesce(insertItem, "referencePrice", ""),
                         colorState |-> CoalesceInt(insertItem, "colorState", 0),
                         checked |-> Coalesce(insertItem, "checked", FALSE)])
         IN  Done([d EXCEPT !.currentItemId = id + 1,
                            !.items = Append(@, item)],
                  Entity(item), TRUE)

\* updateItem that fills the fields the patch omits with the insert defaults
updateItem_defaults(d, id, patch) ==
    IF ~HasArrays(d) THEN TypeError(d)
    ELSE LET index == FindIndex(d.items, id)
         IN  IF index = 0 THEN Done(d, Undefined, FALSE)
             ELSE LET updated == Spread(d.items[index],
                                    Spread([quantity |-> 1, colorState |-> 0], patch))
                  IN  Done([d EXCEPT !.items[index] = updated],
                           Entity(updated), TRUE)

updateItem(d, id, patch) ==
    IF ~HasArrays(d) THEN TypeError(d)
    ELSE LET index == FindIndex(d.items, id)
         IN  IF index = 0 THEN Done(d, Undefined, FALSE)
             ELSE LET updated == Spread(d.items[index], patch)
                  IN  Done([d EXCEPT !.items[index] = updated],
                           Entity(updated), TRUE)

\* deleteItem that returns without calling saveData()
deleteItem_noSave(d, id) ==
    IF ~HasArrays(d) THEN TypeError(d)
    ELSE LET index == FindIndex(d.items, id)
         IN  IF index = 0 THEN Done(d, Bool(FALSE), FALSE)
             ELSE Done([d EXCEPT !.items = Splice(@, index)], Bool(TRUE), FALSE)

\* deleteItem with splice(index): removes the item and all that follow it
deleteItem_spliceRest(d, id) ==
    IF ~HasArrays(d) THEN TypeError(d)
    ELSE LET index == FindIndex(d.items, id)
         IN  IF index = 0 THEN Done(d, Bool(FALSE), FALSE)
             ELSE Done([d EXCEPT !.items = SubSeq(@, 1, index - 1)], Bool(TRUE), TRUE)

deleteItem(d, id) ==
    IF ~HasArrays(d) THEN TypeError(d)
    ELSE LET index == FindIndex(d.items, id)
         IN  IF index = 0 THEN Done(d, Bool(FALSE), FALSE)
             ELSE Done([d EXCEPT !.items = Splice(@, index)], Bool(TRUE), TRUE)

(***************************************************************************)
(* MemStorage                                                              *)
(* A Map is the sequence of its values in insertion order; every value     *)
(* carries its key in .id.  Each method gives the new store and the        *)
(* return value.                                                           *)
(***************************************************************************)
MDone(m, r) == [mem |-> m, ret |-> r]

\* Map.prototype.set: a new key goes last, an existing key keeps its place
MapSet(s, id, v) ==
    LET index == FindIndex(s, id)
    IN  IF index = 0 THEN Append(s, v) ELSE [s EXCEPT ![index] = v]

\* Map.prototype.delete
MapDelete(s, id) == SelectSeq(s, LAMBDA e : e.id # id)

\* Map.prototype.has
MapHas(s, id) == FindIndex(s, id) # 0

createCategorySync(m, insertCategory) ==
    LET id == m.currentCategoryId
        category == Spread(insertCategory,
                       [id |-> id,
                        order |-> CoalesceInt(insertCategory, "order", 0),
                        isExpanded |-> Coalesce(insertCategory, "isExpanded", TRUE)])
    IN  MDone([m EXCEPT !.currentCategoryId = id + 1,
                        !.categories = MapSet(@, id, category)],
              Entity(category))

createItemSync(m, insertItem) ==
    LET id == m.currentItemId
        item == Spread(insertItem,
                   [id |-> id,
                    order |-> CoalesceInt(insertItem, "order", 0),
                    categoryId |-> CoalesceInt(insertItem, "categoryId", Null),
                    quantity |-> CoalesceInt(insertItem, "quantity", 1),
                    unit |-> Coalesce(insertItem, "unit", "Nos."),
                    referencePrice |-> Coalesce(insertItem, "referencePrice", ""),
                    colorState |-> CoalesceInt(insertItem, "colorState", 0),
                    checked |-> Coalesce(insertItem, "checked", FALSE)])
    IN  MDone([m EXCEPT !.currentItemId = id + 1,
                        !.items = MapSet(@, id, item)],
              Entity(item))

\* MemStorage.initializeData: the seed categories, then the seed items
RECURSIVE initializeData(_, _, _)
initializeData(m, cats, its) ==
    IF cats # <<>> THEN initializeData(createCategorySync(m, Head(cats)).mem, Tail(cats), its)
    ELSE IF its # <<>> THEN initializeData(createItemSync(m, Head(its)).mem, cats, Tail(its))
    ELSE m

\* new MemStorage()
MemStorageNew ==
    initializeData([categories |-> <<>>, items |-> <<>>,
                    currentCategoryId |-> 1, currentItemId |-> 1],
                   SeedCategoryInserts, SeedItemInserts)

Mem_getCategories(m) == MDone(m, List(SortByOrder(m.categories)))

Mem_getCategoryById(m, id) ==
    LET index == FindIndex(m.categories, id)
    IN  MDone(m, IF index = 0 THEN Undefined ELSE Entity(m.categories[index]))

Mem_createCategory(m, insertCategory) == createCategorySync(m, insertCategory)

Mem_updateCategory(m, id, patch) ==
    LET index == FindIndex(m.categories, id)
    IN  IF index = 0 THEN MDone(m, Undefined)
        ELSE LET updated == Spread(m.categories[index], patch)
             IN  MDone([m EXCEPT !.categories = MapSet(@, id, updated)], Entity(updated))

Mem_deleteCategory(m, id) ==
    MDone([m EXCEPT !.items = SelectSeq(@, LAMBDA item : item.categoryId # id),
                    !.categories = MapDelete(@, id)],
          Bool(MapHas(m.categories, id)))

Mem_getItems(m) == MDone(m, List(SortByOrder(m.items)))

Mem_getItemsByCategory(m, categoryId) ==
    MDone(m, List(SortByOrder(SelectSeq(m.items,
                    LAMBDA item : item.categoryId = categoryId))))

Mem_getItemById(m, id) ==
    LET index == FindIndex(m.items, id)
    IN  MDone(m, IF index = 0 THEN Undefined ELSE Entity(m.items[index]))

Mem_createItem(m, insertItem) == createItemSync(m, insertItem)

Mem_updateItem(m, id, patch) ==
    LET index == FindIndex(m.items, id)
    IN  IF index = 0 THEN MDone(m, Undefined)
        ELSE LET updated == Spread(m.items[index], patch)
             IN  MDone([m EXCEPT !.items = MapSet(@, id, updated)], Entity(updated))

Mem_deleteItem(m, id) ==
    MDone([m EXCEPT !.items = MapDelete(@, id)], Bool(MapHas(m.items, id)))

(***************************************************************************)
(* getCategoriesWithItems, one await at a time                             *)
(* An async method runs without interruption up to an await; other calls   *)
(* run while it is suspended there.  The methods above contain no await;   *)
(* getCategoriesWithItems awaits getCategories() and then, once per        *)
(* category, getItemsByCategory().  A call in flight is its position (pc), *)
(* the index of the array iterator of the for-of loop, the category and    *)
(* items it holds while awaiting (entry) and the result array so far.      *)
(***************************************************************************)
NotCalled == [pc |-> "idle", index |-> 0, entry |-> <<>>, result |-> <<>>]

\* up to `await this.getCategories()`: getCategories() has sorted
\* this.data.categories and returned that array
cwiStart(d) ==
    [data |-> getCategories(d).data,
     view |-> [pc |-> "awaitCategories", index |-> 0, entry |-> <<>>, result |-> <<>>]]

\* from one await to the next: result.push({...category, items}) for the
\* entry awaited, then the iterator takes the next element of `categories`,
\* which is this.data.categories as it is now, and getItemsByCategory() runs
\* for it; or the loop ends and the result is returned
cwiResume(d, v) ==
    LET result == v.result \o [i \in 1..Len(v.entry) |->
                        Spread(v.entry[i].category, [items |-> v.entry[i].items])]
    IN  IF v.index < Len(d.categories)
        THEN LET category == d.categories[v.index + 1]
             IN  [pc |-> "awaitItems", index |-> v.index + 1,
                  entry |-> << [category |-> category,
                                items |-> getItemsByCategory(d, category.id).ret.val] >>,
                  result |-> result]
        ELSE [pc |-> "returned", index |-> v.index, entry |-> <<>>, result |-> result]

Mem_NotCalled ==
    [pc |-> "idle", categoriesArray |-> <<>>, index |-> 0, entry |-> <<>>, result |-> <<>>]

\* up to `await this.getCategories()`: categoriesArray is the new array that
\* Array.from(...).sort(...) made
Mem_cwiStart(m) ==
    [pc |-> "awaitCategories", categoriesArray |-> Mem_getCategories(m).ret.val,
     index |-> 0, entry |-> <<>>, result |-> <<>>]

\* from one await to the next, iterating categoriesArray
Mem_cwiResume(m, v) ==
    LET result == v.result \o [i \in 1..Len(v.entry) |->
                        Spread(v.entry[i].category, [items |-> v.entry[i].items])]
    IN  IF v.index < Len(v.categoriesArray)
        THEN LET category == v.categoriesArray[v.index + 1]
             IN  [v EXCEPT !.pc = "awaitItems", !.index = v.index + 1,
                           !.entry = << [category |-> category,
                                         items |-> Mem_getItemsByCategory(m, category.id).ret.val] >>,
                           !.result = result]
        ELSE [v EXCEPT !.pc = "returned", !.entry = <<>>, !.result = result]

\* a call that no other call interrupts: resumed at every await until it
\* returns
RECURSIVE cwiRun(_, _)
cwiRun(d, v) ==
    IF v.pc = "returned" THEN v.result ELSE cwiRun(d, cwiResume(d, v))

\* getCategoriesWithItems that visits the categories in their stored order
getCategoriesWithItems_storedOrder(d) ==
    IF ~HasArrays(d) THEN TypeError(d)
    ELSE Done(d, List(cwiRun(d, cwiStart(d).view)), FALSE)

\* getCategoriesWithItems with no other call running at its await points
getCategoriesWithItems(d) ==
    IF ~HasArrays(d) THEN TypeError(d)
    ELSE LET started == cwiStart(d)
         IN  Done(started.data, List(cwiRun(started.data, started.view)), FALSE)

RECURSIVE Mem_cwiRun(_, _)
Mem_cwiRun(m, v) ==
    IF v.pc = "returned" THEN v.result ELSE Mem_cwiRun(m, Mem_cwiResume(m, v))

Mem_getCategoriesWithItems(m) ==
    MDone(m, List(Mem_cwiRun(m, Mem_cwiStart(m))))

(***************************************************************************)
(* Inputs                                                                  *)
(***************************************************************************)
\* category ids used as arguments: a seed category that has items, and the
\* id the first createCategory returns (no category has it before that)
CategoryIdArgs == {2, 4}

\* item ids used as arguments: a seed item (of category 2), and the id the
\* first createItem returns (no item has it before that)
ItemIdArgs == {6, 9}

\* the ids looked up by the reads that take an id: each is unknown until the
\* first create of its kind and known from then on, until it is deleted
ReadCategoryIds == {4}
ReadItemIds == {9}

InsertCategories ==
    { [name |-> "Snacks", order |-> 5],
      [name |-> "Frozen", isExpanded |-> FALSE] }

CategoryPatches ==
    { [name |-> "Greens", order |-> 0] }

InsertItems ==
    { [name |-> "Chips", categoryId |-> 4],
      [name |-> "Salt", categoryId |-> Null, quantity |-> 2, unit |-> "Kgs.",
       colorState |-> Null, order |-> 1, checked |-> TRUE] }

ItemPatches ==
    { [checked |-> TRUE, order |-> 1, categoryId |-> Null] }

NoArg == [x \in {} |-> 0]

(***************************************************************************)
(* Actions                                                                 *)
(***************************************************************************)
\* no ItemRow is rendered
NotRendered == [item |-> <<>>, inflight |-> <<>>, applied |-> <<>>, clicks |-> 0]

\* useRef(null), and no timer set: timeoutRef.current (0 for null), the ids
\* of the timers that are set, the number of timers set so far, the last
\* gesture event handled, and the number of runs of the callback
NotPressed == [timeoutRef |-> 0, timers |-> {}, started |-> 0, last |-> "none",
               fired |-> 0]

\* no getCategoriesWithItems call has started
NoneSeen == [file |-> {}, mem |-> {}]

\* The process starts: new FileStorage() loads the file, new MemStorage()
\* builds the seed data.
Construct(f) ==
    /\ file = f
    /\ data = loadData(f)
    /\ mem = MemStorageNew
    /\ call = [op |-> "construct", id |-> 0, arg |-> NoArg, wr |-> "none"]
    /\ ret = NoReturn
    /\ mret = NoReturn
    /\ issued = [categories |-> {}, items |-> {}]
    /\ clean = TRUE
    /\ view = NotCalled
    /\ mview = Mem_NotCalled
    /\ requests = <<>>
    /\ seen = NoneSeen
    /\ dir = "present"

\* this.data of a FileStorage whose constructor did not get to loadData()
NoData == [x \in {} |-> 0]

\* The process starts where the directory of the file is missing and cannot
\* be made: mkdirSync throws out of ensureDirectoryExists() and out of the
\* constructor, so there is no store to call.
ConstructThrows ==
    /\ file = Absent
    /\ data = NoData
    /\ mem = MemStorageNew
    /\ call = [op |-> "construct", id |-> 0, arg |-> NoArg, wr |-> "none"]
    /\ ret = Throws
    /\ mret = NoReturn
    /\ issued = [categories |-> {}, items |-> {}]
    /\ clean = TRUE
    /\ view = NotCalled
    /\ mview = Mem_NotCalled
    /\ requests = <<>>
    /\ seen = NoneSeen
    /\ dir = "absent"

\* the constructor returned: there is a store
Constructed == ~(call.op = "construct" /\ ret = Throws) /\ call.op # "new"

Init ==
    /\ Construct(Absent)
    /\ nops = 0
    /\ faults = 0
    /\ restarts = 0
    /\ row = NotRendered
    /\ press = NotPressed

InitAnyFile ==
    /\ \/ \E f \in {Absent, Unreadable, NotJSON, EmptyObjectFile} : Construct(f)
       \/ ConstructThrows
    /\ nops = 0
    /\ faults = 0
    /\ restarts = 0
    /\ row = NotRendered
    /\ press = NotPressed

\* One IStorage call: f is the FileStorage outcome, m the MemStorage outcome,
\* w what the snapshot write does when saveData() is reached.
Run(op, id, arg, f, m, w) ==
    /\ Constructed
    /\ nops < MaxOps
    /\ IF f.save THEN (w # "ok" => faults < MaxFaults) ELSE w = "ok"
    /\ (f.save /\ dir = "absent") => w = "fail"
    /\ dir' = dir
    /\ UNCHANGED <<row, press>>
    /\ data' = f.data
    /\ file' = IF f.save THEN saveData(f.data, file, w) ELSE file
    /\ mem' = m.mem
    /\ call' = [op |-> op, id |-> id, arg |-> arg,
                wr |-> IF f.save THEN w ELSE "none"]
    /\ ret' = f.ret
    /\ mret' = m.ret
    /\ issued' =
        IF f.ret.out = "entity" /\ op = "createCategory"
        THEN [issued EXCEPT !.categories = @ \cup {f.ret.val[1].id}]
        ELSE IF f.ret.out = "entity" /\ op = "createItem"
        THEN [issued EXCEPT !.items = @ \cup {f.ret.val[1].id}]
        ELSE issued
    /\ clean' = (clean /\ (f.save => w = "ok"))
    /\ nops' = nops + 1
    /\ faults' = IF f.save /\ w # "ok" THEN faults + 1 ELSE faults
    /\ restarts' = restarts
    /\ UNCHANGED <<view, mview>>

\* a call whose caller is not followed further
Call(op, id, arg, f, m, w) ==
    /\ Run(op, id, arg, f, m, w)
    /\ requests' = requests
    /\ seen' = seen

GetCategories ==
    Call("getCategories", 0, NoArg, getCategories(data), Mem_getCategories(mem), "ok")

GetCategoryById ==
    \E id \in ReadCategoryIds :
        Call("getCategoryById", id, NoArg,
             getCategoryById(data, id), Mem_getCategoryById(mem, id), "ok")

CreateCategory ==
    \E ins \in InsertCategories, w \in WriteOutcomes :
        Call("createCategory", 0, ins,
             createCategory(data, ins), Mem_createCategory(mem, ins), w)

UpdateCategory ==
    \E id \in CategoryIdArgs, patch \in CategoryPatches, w \in WriteOutcomes :
        Call("updateCategory", id, patch,
             updateCategory(data, id, patch), Mem_updateCategory(mem, id, patch), w)

DeleteCategory ==
    \E id \in CategoryIdArgs, w \in WriteOutcomes :
        Call("deleteCategory", id, NoArg,
             deleteCategory(data, id), Mem_deleteCategory(mem, id), w)

GetItems ==
    Call("getItems", 0, NoArg, getItems(data), Mem_getItems(mem), "ok")

GetItemsByCategory ==
    \E id \in ReadCategoryIds :
        Call("getItemsByCategory", id, NoArg,
             getItemsByCategory(data, id), Mem_getItemsByCategory(mem, id), "ok")

GetItemById ==
    \E id \in ReadItemIds :
        Call("getItemById", id, NoArg,
             getItemById(data, id), Mem_getItemById(mem, id), "ok")

CreateItem ==
    \E ins \in InsertItems, w \in WriteOutcomes :
        Call("createItem", 0, ins,
             createItem(data, ins), Mem_createItem(mem, ins), w)

UpdateItem ==
    \E id \in ItemIdArgs, patch \in ItemPatches, w \in WriteOutcomes :
        Call("updateItem", id, patch,
             updateItem(data, id, patch), Mem_updateItem(mem, id, patch), w)

DeleteItem ==
    \E id \in ItemIdArgs, w \in WriteOutcomes :
        Call("deleteItem", id, NoArg,
             deleteItem(data, id), Mem_deleteItem(mem, id), w)

GetCategoriesWithItems ==
    Call("getCategoriesWithItems", 0, NoArg,
         getCategoriesWithItems(data), Mem_getCategoriesWithItems(mem), "ok")

\* The process is stopped and started again on the same backing file.
Restart ==
    /\ Constructed
    /\ nops < MaxOps
    /\ file' = file
    /\ data' = loadData(file)
    /\ mem' = MemStorageNew
    /\ call' = [op |-> "construct", id |-> 0, arg |-> NoArg, wr |-> "none"]
    /\ ret' = NoReturn
    /\ mret' = NoReturn
    /\ issued' = [categories |-> {}, items |-> {}]
    /\ clean' = TRUE
    /\ nops' = nops + 1
    /\ faults' = faults
    /\ restarts' = restarts + 1
    /\ view' = NotCalled
    /\ mview' = Mem_NotCalled
    /\ requests' = <<>>
    /\ seen' = NoneSeen
    /\ dir' = ensureDirectoryExists(dir, "ok").dir
    /\ UNCHANGED <<row, press>>

\* the points inside writeFileSync at which the process can be stopped: the
\* file is open and truncated with the text not or partly written ("torn"),
\* or the whole text is written ("ok")
StopPoints == {"torn", "ok"}

\* The process is stopped while createItem is inside the snapshot write of
\* saveData(), and is started again on the backing file as it was left: one
\* call and one start.
StopDuringWrite ==
    \E ins \in InsertItems, w \in StopPoints :
        LET f == createItem(data, ins) IN
        /\ Constructed
        /\ nops + 2 <= MaxOps
        /\ f.save
        /\ dir # "absent"
        /\ w # "ok" => faults < MaxFaults
        /\ file' = saveData(f.data, file, w)
        /\ data' = loadData(file')
        /\ mem' = MemStorageNew
        /\ call' = [op |-> "construct", id |-> 0, arg |-> NoArg, wr |-> "none"]
        /\ ret' = NoReturn
        /\ mret' = NoReturn
        /\ issued' = [categories |-> {}, items |-> {}]
        /\ clean' = TRUE
        /\ nops' = nops + 2
        /\ faults' = IF w # "ok" THEN faults + 1 ELSE faults
        /\ restarts' = restarts + 1
        /\ view' = NotCalled
        /\ mview' = Mem_NotCalled
        /\ requests' = <<>>
        /\ seen' = NoneSeen
        /\ dir' = ensureDirectoryExists(dir, "ok").dir
        /\ UNCHANGED <<row, press>>

Next ==
    \/ GetCategories
    \/ GetCategoryById
    \/ CreateCategory
    \/ UpdateCategory
    \/ DeleteCategory
    \/ GetItems
    \/ GetItemsByCategory
    \/ GetItemById
    \/ CreateItem
    \/ UpdateItem
    \/ DeleteItem
    \/ GetCategoriesWithItems
    \/ Restart
    \/ StopDuringWrite

Spec == Init /\ [][Next]_vars

SpecAnyFile == InitAnyFile /\ [][Next]_vars

\* The process before `new FileStorage()`: neither the data directory nor
\* the file is there.
NotConstructed ==
    /\ file = Absent
    /\ dir = "absent"
    /\ data = NoData
    /\ mem = MemStorageNew
    /\ call = [op |-> "new", id |-> 0, arg |-> NoArg, wr |-> "none"]
    /\ ret = NoReturn
    /\ mret = NoReturn
    /\ issued = [categories |-> {}, items |-> {}]
    /\ clean = TRUE
    /\ nops = 0
    /\ faults = 0
    /\ restarts = 0
    /\ row = NotRendered
    /\ press = NotPressed
    /\ view = NotCalled
    /\ mview = Mem_NotCalled
    /\ requests = <<>>
    /\ seen = NoneSeen

\* new FileStorage(): ensureDirectoryExists(), then loadData()
New ==
    \E mk \in MkdirOutcomes :
        LET e == ensureDirectoryExists(dir, mk) IN
        /\ call.op = "new"
        /\ dir' = e.dir
        /\ data' = IF e.out = "throws" THEN NoData ELSE loadData(file)
        /\ ret' = IF e.out = "throws" THEN Throws ELSE NoReturn
        /\ call' = [op |-> "construct", id |-> 0, arg |-> NoArg, wr |-> "none"]
        /\ UNCHANGED <<file, mem, mret, issued, clean, nops, faults, restarts,
                       view, mview, requests, seen, row, press>>

NextStartup == New \/ Next

SpecStartup == NotConstructed /\ [][NextStartup]_vars

(***************************************************************************)
(* Calls that run while a getCategoriesWithItems call is suspended         *)
(***************************************************************************)
\* getCategoriesWithItems() is called on both stores and runs to its first
\* await
ViewStart ==
    /\ Constructed
    /\ view.pc = "idle"
    /\ HasArrays(data)
    /\ data' = cwiStart(data).data
    /\ view' = cwiStart(data).view
    /\ mview' = Mem_cwiStart(mem)
    /\ seen' = [file |-> {getCategoriesWithItems(data).ret.val},
                mem |-> {Mem_getCategoriesWithItems(mem).ret.val}]
    /\ UNCHANGED <<file, mem, call, ret, mret, issued, clean, nops, faults, restarts,
                   requests, dir, row, press>>

Suspended(v) == v.pc \in {"awaitCategories", "awaitItems"}

\* the suspended calls run on to their next await or to their return
ViewResume ==
    /\ Suspended(view) \/ Suspended(mview)
    /\ view' = IF Suspended(view) THEN cwiResume(data, view) ELSE view
    /\ mview' = IF Suspended(mview) THEN Mem_cwiResume(mem, mview) ELSE mview
    /\ UNCHANGED <<data, file, mem, call, ret, mret, issued, clean, nops, faults, restarts,
                   requests, seen, dir, row, press>>

\* a mutating call of another request, its snapshot written; the store it
\* leaves is one that existed during the getCategoriesWithItems calls that
\* are suspended
Other(op, id, arg, f, m) ==
    /\ Run(op, id, arg, f, m, "ok")
    /\ requests' = requests
    /\ seen' = [file |-> IF Suspended(view)
                         THEN seen.file \cup {getCategoriesWithItems(f.data).ret.val}
                         ELSE seen.file,
                mem |-> IF Suspended(mview)
                        THEN seen.mem \cup {Mem_getCategoriesWithItems(m.mem).ret.val}
                        ELSE seen.mem]

OtherRequest ==
    \/ \E ins \in InsertCategories :
            Other("createCategory", 0, ins,
                  createCategory(data, ins), Mem_createCategory(mem, ins))
    \/ \E id \in CategoryIdArgs :
            Other("deleteCategory", id, NoArg,
                  deleteCategory(data, id), Mem_deleteCategory(mem, id))
    \/ \E ins \in InsertItems :
            Other("createItem", 0, ins,
                  createItem(data, ins), Mem_createItem(mem, ins))
    \/ \E id \in ItemIdArgs, patch \in ItemPatches :
            Other("updateItem", id, patch,
                  updateItem(data, id, patch), Mem_updateItem(mem, id, patch))

NextAwait ==
    \/ ViewStart
    \/ ViewResume
    \/ OtherRequest

SpecAwait == Init /\ [][NextAwait]_vars

(***************************************************************************)
(* Create calls of several requests in flight at once                      *)
(* createCategory and createItem are async methods without an await: a     *)
(* call runs the whole body, the snapshot write included, and hands its    *)
(* caller a promise of the entity; the caller is resumed with the entity   *)
(* later, after any number of calls of other requests.                     *)
(***************************************************************************)
\* a request calls createCategory or createItem and awaits the promise
RequestCreate ==
    \/ \E ins \in InsertCategories :
            /\ Run("createCategory", 0, ins,
                   createCategory(data, ins), Mem_createCategory(mem, ins), "ok")
            /\ requests' = Append(requests,
                    [op |-> "createCategory", pc |-> "awaiting",
                     result |-> createCategory(data, ins).ret])
            /\ seen' = seen
    \/ \E ins \in InsertItems :
            /\ Run("createItem", 0, ins,
                   createItem(data, ins), Mem_createItem(mem, ins), "ok")
            /\ requests' = Append(requests,
                    [op |-> "createItem", pc |-> "awaiting",
                     result |-> createItem(data, ins).ret])
            /\ seen' = seen

\* a request that awaits its promise is resumed with the entity
RequestResume ==
    \E i \in 1..Len(requests) :
        /\ requests[i].pc = "awaiting"
        /\ requests' = [requests EXCEPT ![i].pc = "resumed"]
        /\ UNCHANGED <<data, file, mem, call, ret, mret, issued, clean, nops, faults,
                       restarts, view, mview, seen, dir, row, press>>

NextRequests ==
    \/ RequestCreate
    \/ RequestResume

SpecRequests == Init /\ [][NextRequests]_vars

(***************************************************************************)
(* ItemRow (item-row.tsx)                                                  *)
(*                                                                         *)
(* A row is rendered from its `item` prop.  Every handler computes the     *)
(* update from that prop and hands it to updateItemMutation, which sends   *)
(* PUT /api/items/:id; the store applies it with updateItem(); onSuccess   *)
(* invalidates the list query, and the re-fetch gives the row a new prop.  *)
(***************************************************************************)
MaxClicks == 4

COLOR_CLASSES == <<"bg-row-white dark:bg-row-white", "bg-row-teal dark:bg-row-teal",
                   "bg-row-blue dark:bg-row-blue", "bg-row-orange dark:bg-row-orange">>

UNITS == <<"Nos.", "Gms.", "Kgs.">>

\* Array.prototype.indexOf, 0-based; -1 when x is not in the array
IndexOf(s, x) ==
    IF \E i \in 1..Len(s) : s[i] = x
    THEN (CHOOSE i \in 1..Len(s) : s[i] = x /\ \A j \in 1..(i - 1) : s[j] # x) - 1
    ELSE -1

\* Math.max of two integers
MathMax(a, b) == IF a >= b THEN a ELSE b

\* Math.round(n / d) for d > 0: the nearest integer, a half goes up
MathRound(n, d) == (2 * n + d) \div (2 * d)

\* item.quantity || 1: null, NaN and 0 give 1
QuantityOr1(item) ==
    IF item.quantity \in {Null, NaN, 0} THEN 1 ELSE item.quantity

\* item.unit || "Nos.": the empty text gives "Nos."
UnitOrNos(item) ==
    IF item.unit = "" THEN "Nos." ELSE item.unit

\* the digits of a typed text
DigitValue ==
    [c \in {"0", "1", "2", "3", "4", "5", "6", "7", "8", "9"} |->
        CASE c = "0" -> 0 [] c = "1" -> 1 [] c = "2" -> 2 [] c = "3" -> 3
          [] c = "4" -> 4 [] c = "5" -> 5 [] c = "6" -> 6 [] c = "7" -> 7
          [] c = "8" -> 8 [] c = "9" -> 9]

RECURSIVE DigitsValue(_, _)
\* the value of the leading digits of the text, read after `acc`
DigitsValue(text, acc) ==
    IF text = <<>> \/ Head(text) \notin DOMAIN DigitValue THEN acc
    ELSE DigitsValue(Tail(text), 10 * acc + DigitValue[Head(text)])

\* parseInt(value), the text given as its characters: an optional sign, then
\* the leading digits; NaN when there is no digit
parseInt(value) ==
    LET signed == value # <<>> /\ Head(value) \in {"-", "+"}
        digits == IF signed THEN Tail(value) ELSE value
    IN  IF digits = <<>> \/ Head(digits) \notin DOMAIN DigitValue THEN NaN
        ELSE IF signed /\ Head(value) = "-" THEN 0 - DigitsValue(digits, 0)
        ELSE DigitsValue(digits, 0)

\* the callback given to useLongPress: the next unit, the quantity converted
quantityLongPress(item) ==
    LET currentUnitIndex == IndexOf(UNITS, UnitOrNos(item))
        nextUnitIndex == (currentUnitIndex + 1) % Len(UNITS)
        nextUnit == UNITS[nextUnitIndex + 1]
        newQuantity == QuantityOr1(item)
    IN  [unit |-> nextUnit,
         quantity |->
            IF nextUnit = "Gms." /\ item.unit = "Nos."
            THEN MathMax(250, newQuantity * 250)
            ELSE IF nextUnit = "Nos." /\ item.unit = "Gms."
            THEN MathMax(1, MathRound(newQuantity, 250))
            ELSE IF nextUnit = "Kgs." /\ item.unit = "Gms."
            THEN MathMax(1, MathRound(newQuantity, 1000))
            ELSE IF nextUnit = "Gms." /\ item.unit = "Kgs."
            THEN newQuantity * 1000
            ELSE newQuantity]

\* null + 1 is 1
ToNumber(x) == IF x = Null THEN 0 ELSE x

handleColorToggle_fromWhite(item) ==
    [colorState |-> 1 % Len(COLOR_CLASSES)]

handleColorToggle(item) ==
    [colorState |-> (ToNumber(item.colorState) + 1) % Len(COLOR_CLASSES)]

handleCheckToggle(item) ==
    [checked |-> ~item.checked]

handleQuantityChange(item, delta) ==
    LET unit == UnitOrNos(item)
        increment == IF unit = "Gms." THEN 250 ELSE 1
    IN  [quantity |-> MathMax(increment, QuantityOr1(item) + delta * increment)]

\* parseInt(value) || 1: NaN and 0 give 1
handleQuantityInputChange(value) ==
    LET n == parseInt(value)
    IN  [quantity |-> IF n \in {NaN, 0} THEN 1 ELSE n]

\* the rows rendered: Bananas (6 Nos., white) and Cheese (250 Gms., orange)
RowItemIds == {1, 8}

\* what is typed into the quantity input (type="number"), as characters;
\* no text here parses to -1 or -2, which stand for null and NaN
TypedValues == {<<"-", "5">>, <<>>}

\* <ItemRow item={item} />
Render(item) ==
    [item |-> item, inflight |-> <<>>, applied |-> item, clicks |-> 0]

\* updateItemMutation.mutate(updates): the PUT request is sent.  `applied`
\* is the item with every click so far applied in turn, `asStored` being
\* the update the handler computes from that item.
Mutate(updates, asStored) ==
    /\ row.clicks < MaxClicks
    /\ row' = [row EXCEPT !.inflight = Append(@, updates),
                          !.applied = Spread(@, asStored),
                          !.clicks = @ + 1]

StoreUnchanged ==
    UNCHANGED <<data, file, mem, call, ret, mret, issued, clean, nops, faults, restarts,
                view, mview, requests, seen, dir>>

HandleColorToggle ==
    /\ Mutate(handleColorToggle(row.item), handleColorToggle(row.applied))
    /\ press' = press
    /\ StoreUnchanged

HandleCheckToggle ==
    /\ Mutate(handleCheckToggle(row.item), handleCheckToggle(row.applied))
    /\ press' = press
    /\ StoreUnchanged

HandleQuantityChange ==
    \E delta \in {-1, 1} :
        /\ Mutate(handleQuantityChange(row.item, delta),
                  handleQuantityChange(row.applied, delta))
        /\ press' = press
        /\ StoreUnchanged

HandleQuantityInputChange ==
    \E value \in TypedValues :
        /\ Mutate(handleQuantityInputChange(value), handleQuantityInputChange(value))
        /\ press' = press
        /\ StoreUnchanged

\* the long-press callback runs
QuantityLongPress ==
    /\ Mutate(quantityLongPress(row.item), quantityLongPress(row.applied))
    /\ press' = press
    /\ StoreUnchanged

\* the oldest PUT /api/items/:id in flight is served: updateItem(id, updates)
\* and its snapshot write
PutItem ==
    /\ row.inflight # <<>>
    /\ LET updates == Head(row.inflight)
           f == updateItem(data, row.item.id, updates)
       IN  /\ data' = f.data
           /\ file' = IF f.save THEN saveData(f.data, file, "ok") ELSE file
           /\ call' = [op |-> "updateItem", id |-> row.item.id, arg |-> updates,
                       wr |-> IF f.save THEN "ok" ELSE "none"]
           /\ ret' = f.ret
    /\ row' = [row EXCEPT !.inflight = Tail(@)]
    /\ UNCHANGED <<mem, mret, issued, clean, nops, faults, restarts,
                   view, mview, requests, seen, dir, press>>

\* the list is fetched again and the row gets the stored item as its prop
Refetch ==
    /\ row.item # <<>>
    /\ row' = [row EXCEPT !.item = data.items[FindIndex(data.items, row.item.id)]]
    /\ press' = press
    /\ StoreUnchanged

InitItemRow ==
    /\ Construct(Absent)
    /\ nops = 0
    /\ faults = 0
    /\ restarts = 0
    /\ \E id \in RowItemIds : row = Render(getDefaultData.items[id])
    /\ press = NotPressed

NextItemRow ==
    \/ HandleColorToggle
    \/ HandleCheckToggle
    \/ HandleQuantityChange
    \/ HandleQuantityInputChange
    \/ QuantityLongPress
    \/ PutItem
    \/ Refetch

SpecItemRow == InitItemRow /\ [][NextItemRow]_vars

(***************************************************************************)
(* useLongPress (use-long-press.tsx), on the quantity input of the row     *)
(***************************************************************************)
MaxPresses == 3

\* start: timeoutRef.current = setTimeout(() => onLongPress(), delay); the
\* callback is the one of the render the handler belongs to, with its `item`
start(p, item) ==
    [p EXCEPT !.timeoutRef = p.started + 1,
              !.timers = @ \cup {[id |-> p.started + 1, item |-> item]},
              !.started = @ + 1,
              !.last = "start"]

\* clear: if (timeoutRef.current) { clearTimeout(...); timeoutRef.current = null }
clear(p) ==
    IF p.timeoutRef # 0
    THEN [p EXCEPT !.timers = {t \in @ : t.id # p.timeoutRef},
                   !.timeoutRef = 0,
                   !.last = "clear"]
    ELSE [p EXCEPT !.last = "clear"]

\* onMouseDown, onTouchStart
PressStart ==
    /\ press.started < MaxPresses
    /\ press' = start(press, row.item)
    /\ row' = row
    /\ StoreUnchanged

\* onMouseUp, onMouseLeave, onTouchEnd, onTouchCancel
PressClear ==
    /\ press.last # "none"
    /\ press' = clear(press)
    /\ row' = row
    /\ StoreUnchanged

\* the delay of the oldest timer set has passed: () => { onLongPress() }
PressTimeout ==
    /\ press.timers # {}
    /\ LET timer == CHOOSE t \in press.timers : \A u \in press.timers : t.id <= u.id
       IN  /\ press' = [press EXCEPT !.timers = @ \ {timer}, !.fired = @ + 1]
           /\ Mutate(quantityLongPress(timer.item), quantityLongPress(row.applied))
    /\ StoreUnchanged

NextLongPress ==
    \/ PressStart
    \/ PressClear
    \/ PressTimeout
    \/ PutItem
    \/ Refetch

SpecLongPress == InitItemRow /\ [][NextLongPress]_vars

\* only the color dot of the row is clicked
NextColorDot ==
    \/ HandleColorToggle
    \/ PutItem
    \/ Refetch

SpecColorDot == InitItemRow /\ [][NextColorDot]_vars

(***************************************************************************)
(* Home (home.tsx), with SettingsMenu and CategorySection                  *)
(*                                                                         *)
(* `categories` is the data of the query ["/api/categories"]: the result   *)
(* of the last getCategoriesWithItems() call that returned, kept in        *)
(* `view`.  A handler computes its request from that list; the request is  *)
(* served by the store, and the list is fetched again some time later.     *)
(***************************************************************************)
\* what is entered at prompt("Enter category name:") and
\* prompt("Enter item name:")
CategoryNames == {"Snacks"}
ItemNames == {"Chips"}

\* categories?.length || 0, firstCategory.items.length || 0
LengthOr0(s) == Len(s)

\* the payload of handleAddItem for the category shown
NewItem(category, name) ==
    [categoryId |-> category.id, name |-> name, quantity |-> 1, unit |-> "Nos.",
     referencePrice |-> "", colorState |-> 0, checked |-> FALSE,
     order |-> LengthOr0(category.items)]

\* the page is past isLoading
Loaded == view.pc = "returned"

\* the query ["/api/categories"] is fetched: getCategoriesWithItems()
Fetch ==
    /\ Constructed
    /\ HasArrays(data)
    /\ LET f == getCategoriesWithItems(data)
       IN  /\ data' = f.data
           /\ ret' = f.ret
           /\ view' = [pc |-> "returned", index |-> Len(f.data.categories),
                       entry |-> <<>>, result |-> f.ret.val]
    /\ call' = [op |-> "getCategoriesWithItems", id |-> 0, arg |-> NoArg, wr |-> "none"]
    /\ UNCHANGED <<file, mem, mret, issued, clean, nops, faults, restarts,
                   mview, requests, seen, dir, row, press>>

\* Home.handleAddCategory: POST /api/categories
HandleAddCategory ==
    \E name \in CategoryNames :
        LET category == [name |-> name, isExpanded |-> TRUE,
                         order |-> LengthOr0(view.result)]
        IN  /\ Loaded
            /\ Call("createCategory", 0, category,
                    createCategory(data, category), Mem_createCategory(mem, category), "ok")

\* SettingsMenu.handleDeleteCategory: DELETE /api/categories/:id
HandleDeleteCategory ==
    \E i \in 1..Len(view.result) :
        /\ Loaded
        /\ Call("deleteCategory", view.result[i].id, NoArg,
                deleteCategory(data, view.result[i].id),
                Mem_deleteCategory(mem, view.result[i].id), "ok")

\* Home.handleAddItem: POST /api/items for the first category
HandleAddItem ==
    \E name \in ItemNames :
        /\ Loaded
        /\ Len(view.result) # 0
        /\ LET item == NewItem(view.result[1], name)
           IN  Call("createItem", 0, item,
                    createItem(data, item), Mem_createItem(mem, item), "ok")

\* CategorySection.handleAddItem: POST /api/items for the section's category
SectionAddItem ==
    \E i \in 1..Len(view.result), name \in ItemNames :
        /\ Loaded
        /\ LET item == NewItem(view.result[i], name)
           IN  Call("createItem", 0, item,
                    createItem(data, item), Mem_createItem(mem, item), "ok")

NextHome ==
    \/ Fetch
    \/ HandleAddCategory
    \/ HandleDeleteCategory
    \/ HandleAddItem
    \/ SectionAddItem

SpecHome == Init /\ [][NextHome]_vars

(***************************************************************************)
(* Properties                                                              *)
(***************************************************************************)
\* the step is a call of the method op
Called(op) == nops' = nops + 1 /\ call'.op = op

\* the ids of the entities of a collection
Ids(s) == {s[i].id : i \in 1..Len(s)}

\* the entities of a collection, as a set
Elems(s) == {s[i] : i \in 1..Len(s)}

\* C1: within one process lifetime every id a createCategory call returns is
\* greater than every category id returned before, whatever was deleted,
\* updated or read in between; the same for createItem and item ids.
C1_IdentityMonotonic ==
    [][ /\ (Called("createCategory") /\ ret'.out = "entity") =>
                \A i \in issued.categories : ret'.val[1].id > i
        /\ (Called("createItem") /\ ret'.out = "entity") =>
                \A i \in issued.items : ret'.val[1].id > i ]_vars

\* two category ids were handed out, and the category that got the first
\* one was deleted before the second create
C1_Witness ==
    /\ call.op = "createCategory"
    /\ Cardinality(issued.categories) >= 2
    /\ \E i \in issued.categories : i \notin Ids(data.categories)

\* C2: when deleteCategory(id) returns true, then in the state it leaves
\* getCategory(id) is absent, listItemsByCategory(id) is empty and getItem is
\* absent for every item that had categoryId = id; in both stores.
C2_CascadeDelete ==
    [][ Called("deleteCategory") =>
        LET id == call'.id IN
        /\ ret'.out = "true" =>
            /\ getCategoryById(data', id).ret = Undefined
            /\ getItemsByCategory(data', id).ret = List(<<>>)
            /\ \A i \in 1..Len(data.items) :
                    data.items[i].categoryId = id =>
                        getItemById(data', data.items[i].id).ret = Undefined
        /\ mret'.out = "true" =>
            /\ Mem_getCategoryById(mem', id).ret = Undefined
            /\ Mem_getItemsByCategory(mem', id).ret = List(<<>>)
            /\ \A i \in 1..Len(mem.items) :
                    mem.items[i].categoryId = id =>
                        Mem_getItemById(mem', mem.items[i].id).ret = Undefined ]_vars

\* seed category 2, which had items, was deleted from both stores
C2_Witness ==
    /\ call.op = "deleteCategory"
    /\ call.id = 2
    /\ ret.out = "true"
    /\ mret.out = "true"
    /\ Len(data.items) < 8

\* the entity at `index` of the collection `new` is the one of `old` with the
\* patch laid over it, and nothing else in the collection differs
PatchedAt(old, new, index, patch) ==
    /\ Len(new) = Len(old)
    /\ \A i \in 1..Len(old) : i # index => new[i] = old[i]
    /\ DOMAIN new[index] = (DOMAIN old[index]) \cup (DOMAIN patch)
    /\ new[index].id = old[index].id
    /\ \A k \in DOMAIN patch : new[index][k] = patch[k]
    /\ \A k \in (DOMAIN old[index]) \ (DOMAIN patch) : new[index][k] = old[index][k]

\* C3: updateItem(id, patch) and updateCategory(id, patch) on an existing id
\* keep the id and every field the patch does not name, give every field the
\* patch names the patch's value, return that entity, and change no other
\* entity and neither counter.
C3_PartialUpdate ==
    [][ /\ (Called("updateItem") /\ FindIndex(data.items, call'.id) # 0) =>
            LET index == FindIndex(data.items, call'.id) IN
            /\ PatchedAt(data.items, data'.items, index, call'.arg)
            /\ ret' = Entity(data'.items[index])
            /\ data'.categories = data.categories
            /\ data'.currentCategoryId = data.currentCategoryId
            /\ data'.currentItemId = data.currentItemId
        /\ (Called("updateCategory") /\ FindIndex(data.categories, call'.id) # 0) =>
            LET index == FindIndex(data.categories, call'.id) IN
            /\ PatchedAt(data.categories, data'.categories, index, call'.arg)
            /\ ret' = Entity(data'.categories[index])
            /\ data'.items = data.items
            /\ data'.currentCategoryId = data.currentCategoryId
            /\ data'.currentItemId = data.currentItemId ]_vars

\* an item was updated after a category had been updated
C3_Witness ==
    /\ call.op = "updateItem"
    /\ ret.out = "entity"
    /\ \E i \in 1..Len(data.categories) :
            data.categories[i].id = 2 /\ data.categories[i].name = "Greens"

\* a returned list is sorted by order, and entities of equal order are in
\* the order of their creation (ids are handed out in increasing order)
SortedStable(s) ==
    \A i, j \in 1..Len(s) :
        i < j => \/ OrderKey(s[i]) < OrderKey(s[j])
                 \/ OrderKey(s[i]) = OrderKey(s[j]) /\ s[i].id < s[j].id

\* C4: listCategories, listItems and listItemsByCategory return their
\* entities sorted by order ascending, entities of equal order in the order
\* in which they were created.
C4_StableOrdering ==
    (call.op \in {"getCategories", "getItems", "getItemsByCategory"} /\ ret.out = "list")
        => SortedStable(ret.val)

Mutators == {"createCategory", "updateCategory", "deleteCategory",
             "createItem", "updateItem", "deleteItem"}

\* C5: a create, update or delete call that changes the store writes the
\* snapshot before it returns; when that write does not fail, the file then
\* holds the in-memory categories, items and counters.
C5_PersistAfterMutation ==
    [][ (nops' = nops + 1 /\ call'.op \in Mutators /\ data' # data) =>
            /\ call'.wr # "none"
            /\ call'.wr = "ok" =>
                    /\ file'.kind = "json"
                    /\ JSONparse(file'.value) = data' ]_vars

\* an item was deleted and the snapshot written
C5_Witness ==
    /\ call.op = "deleteItem"
    /\ ret.out = "true"
    /\ call.wr = "ok"
    /\ Len(data.items) < 8

\* two stores that no IStorage call can tell apart
ObsEqual(d1, d2) ==
    /\ d1.currentCategoryId = d2.currentCategoryId
    /\ d1.currentItemId = d2.currentItemId
    /\ Elems(d1.categories) = Elems(d2.categories)
    /\ Elems(d1.items) = Elems(d2.items)
    /\ Len(d1.categories) = Len(d2.categories)
    /\ Len(d1.items) = Len(d2.items)
    /\ getCategories(d1).ret = getCategories(d2).ret
    /\ getItems(d1).ret = getItems(d2).ret
    /\ \A id \in CategoryIdArgs \cup {1, 3} :
            /\ getCategoryById(d1, id).ret = getCategoryById(d2, id).ret
            /\ getItemsByCategory(d1, id).ret = getItemsByCategory(d2, id).ret
    /\ \A id \in ItemIdArgs \cup 1..8 :
            getItemById(d1, id).ret = getItemById(d2, id).ret
    /\ \A ins \in InsertCategories : createCategory(d1, ins).ret = createCategory(d2, ins).ret
    /\ \A ins \in InsertItems : createItem(d1, ins).ret = createItem(d2, ins).ret

\* C6: a store whose snapshot writes all succeeded, when constructed again
\* on its backing file, has the same categories, items and counters: every
\* read returns the same result and the next create the same id.
C6_RoundTrip ==
    [][ (Called("construct") /\ clean) => ObsEqual(data, data') ]_vars

\* the store was constructed from a snapshot that an earlier process wrote
\* after it had added a category
C6_Witness ==
    /\ call.op = "construct"
    /\ file.kind = "json"
    /\ data.currentCategoryId > 4
    /\ Len(data.categories) > 3

\* the file holds a snapshot: JSON text of an object with the four members
IsSnapshot(f) ==
    /\ f.kind = "json"
    /\ {"categories", "items", "currentCategoryId", "currentItemId"}
            \subseteq {f.value[i][1] : i \in 1..Len(f.value)}

\* C7: constructing the store on a file that is absent, unreadable or not a
\* valid snapshot does not throw and gives the seed dataset.
C7_SeedFallback ==
    (call.op = "construct" /\ ~IsSnapshot(file)) =>
        /\ ret.out # "throw"
        /\ data = getDefaultData

\* what the FileStorage method named by the call c does to the store d
ApplyCall(d, c) ==
    CASE c.op = "getCategories"      -> getCategories(d)
      [] c.op = "getCategoryById"    -> getCategoryById(d, c.id)
      [] c.op = "createCategory"     -> createCategory(d, c.arg)
      [] c.op = "updateCategory"     -> updateCategory(d, c.id, c.arg)
      [] c.op = "deleteCategory"     -> deleteCategory(d, c.id)
      [] c.op = "getItems"           -> getItems(d)
      [] c.op = "getItemsByCategory" -> getItemsByCategory(d, c.id)
      [] c.op = "getItemById"        -> getItemById(d, c.id)
      [] c.op = "createItem"         -> createItem(d, c.arg)
      [] c.op = "updateItem"         -> updateItem(d, c.id, c.arg)
      [] c.op = "deleteItem"         -> deleteItem(d, c.id)
      [] c.op = "getCategoriesWithItems" -> getCategoriesWithItems(d)

\* C8: when the snapshot write of a mutating call fails, the call returns
\* its normal result, the store keeps the mutation and the backing file is
\* left at its previous content.
C8_WriteFaultSwallowed ==
    [][ (nops' = nops + 1 /\ call'.op \in Mutators /\ call'.wr \in {"fail", "torn"}) =>
            /\ ret'.out \in {"entity", "true"}
            /\ data' = ApplyCall(data, call').data
            /\ (data' = data => call'.op \in {"updateCategory", "updateItem"})
            /\ file' = file ]_vars

\* C9: deleteCategory with an id that no stored category has returns false
\* and changes nothing, in the file-backed and in the in-memory store.
C9_DeleteUnknownCategory ==
    [][ Called("deleteCategory") =>
        /\ call'.id \notin Ids(data.categories) =>
                ret'.out = "false" /\ data' = data /\ file' = file
        /\ call'.id \notin Ids(mem.categories) =>
                mret'.out = "false" /\ mem' = mem ]_vars

\* C10: updateCategory and updateItem with an unknown id return absent and
\* deleteItem with an unknown id returns false, leaving the collections, the
\* counters and the file as they were; deleteItem with a known id removes
\* that item and nothing else, and returns true.
C10_NotFound ==
    [][ /\ (Called("updateCategory") /\ call'.id \notin Ids(data.categories)) =>
                ret' = Undefined /\ data' = data /\ file' = file
        /\ (Called("updateItem") /\ call'.id \notin Ids(data.items)) =>
                ret' = Undefined /\ data' = data /\ file' = file
        /\ (Called("deleteItem") /\ call'.id \notin Ids(data.items)) =>
                ret' = Bool(FALSE) /\ data' = data /\ file' = file
        /\ (Called("deleteItem") /\ call'.id \in Ids(data.items)) =>
                /\ ret' = Bool(TRUE)
                /\ data'.items = SelectSeq(data.items, LAMBDA item : item.id # call'.id)
                /\ Len(data'.items) = Len(data.items) - 1
                /\ data'.categories = data.categories
                /\ data'.currentCategoryId = data.currentCategoryId
                /\ data'.currentItemId = data.currentItemId ]_vars

\* an update of an unknown item came back absent after item 6 was deleted
C10_Witness ==
    /\ call.op = "updateItem"
    /\ call.id \notin Ids(data.items)
    /\ ret = Undefined
    /\ 6 \notin Ids(data.items)
    /\ Len(data.items) = 7

\* which array of the store a list call hands to its caller: sort() returns
\* the array it sorted, so getCategories and getItems return
\* this.data.categories and this.data.items themselves
OwnArray(op) ==
    CASE op = "getCategories" -> "categories"
      [] op = "getItems"      -> "items"
      [] OTHER                -> "none"

\* what the array returned by the call c (with contents r) holds once the
\* next call c2 has left the store at d2: push, splice and index assignment
\* act on the store's own array; deleteCategory assigns a new array to
\* this.data.items and leaves the old one as it was
HeldAfter(c, r, c2, d2) ==
    IF OwnArray(c.op) = "categories" THEN d2.categories
    ELSE IF OwnArray(c.op) = "items" /\ c2.op # "deleteCategory" THEN d2.items
    ELSE r

\* C11: listCategories and listItems change neither the contents nor the
\* stored order of the store's collections, and a sequence one of them
\* returned is not changed by the mutating call that follows it.
C11_ListReadOnlyFresh ==
    [][ /\ (Called("getCategories") \/ Called("getItems")) =>
                data' = data /\ mem' = mem
        /\ ( /\ call.op \in {"getCategories", "getItems"}
             /\ ret.out = "list"
             /\ nops' = nops + 1
             /\ call'.op \in Mutators ) =>
                HeldAfter(call, ret.val, call', data') = ret.val ]_vars

\* C12: when the process is stopped during a snapshot write, the next start
\* loads either the store that the file held before the call (the seed
\* dataset when there was no file yet) or the store with the call's
\* mutation; it never falls back to the seed dataset from a truncated file.
C12_AtomicPersistence ==
    [][ (nops' = nops + 2) =>
            \/ data' = loadData(file)
            \/ \E ins \in InsertItems : data' = createItem(data, ins).data ]_vars

\* of the category id that `before` holds and the items it has there,
\* `after` holds one without the other
HalfDeleted(before, after, id) ==
    LET had == {before.items[i].id :
                    i \in {j \in 1..Len(before.items) : before.items[j].categoryId = id}}
        left == had \cap Ids(after.items)
    IN  /\ id \in Ids(before.categories)
        /\ \/ id \notin Ids(after.categories) /\ left # {}
           \/ id \in Ids(after.categories) /\ left # had

\* the step resumes the suspended getCategoriesWithItems call v
Resumed(v, v2) == Suspended(v) /\ v2 # v

\* C13: deleteCategory leaves neither store, and no written snapshot, with
\* the category but not all of its items or with an item of it but not the
\* category; and a getCategoriesWithItems call of another request that is
\* suspended meanwhile never pairs a category the store has deleted with
\* the item list read after the removal.
C13_CascadeAtomic ==
    [][ /\ Called("deleteCategory") =>
            /\ ~HalfDeleted(data, data', call'.id)
            /\ file'.kind = "json" => ~HalfDeleted(data, JSONparse(file'.value), call'.id)
            /\ ~HalfDeleted(mem, mem', call'.id)
        /\ Resumed(view, view') =>
            \A i \in 1..Len(view'.entry) :
                view'.entry[i].category.id \in Ids(data'.categories)
        /\ Resumed(mview, mview') =>
            \A i \in 1..Len(mview'.entry) :
                mview'.entry[i].category.id \in Ids(mem'.categories) ]_vars

\* the defaults of the optional fields
ItemDefaults ==
    [categoryId |-> Null, quantity |-> 1, unit |-> "Nos.", referencePrice |-> "",
     colorState |-> 0, checked |-> FALSE, order |-> 0]

CategoryDefaults == [isExpanded |-> TRUE, order |-> 0]

\* the payload carries the key k with the value null
IsNull(obj, k) ==
    /\ k \in DOMAIN obj
    /\ k \in {"categoryId", "quantity", "colorState", "order"}
    /\ obj[k] = Null

\* the entity e has exactly the fields of an entity with these defaults, the
\* id `id`, the payload's value for every key the payload has, and the
\* default for every other key
FilledAsStated(e, payload, defaults, id) ==
    /\ DOMAIN e = {"id", "name"} \cup DOMAIN defaults
    /\ e.id = id
    /\ \A k \in DOMAIN payload : e[k] = payload[k]
    /\ \A k \in (DOMAIN defaults) \ (DOMAIN payload) : e[k] = defaults[k]

\* the same, a key that the payload carries with the value null counting
\* as a key the payload does not have
Filled(e, payload, defaults, id) ==
    /\ DOMAIN e = {"id", "name"} \cup DOMAIN defaults
    /\ e.id = id
    /\ \A k \in DOMAIN payload : ~IsNull(payload, k) => e[k] = payload[k]
    /\ \A k \in DOMAIN defaults :
            (k \notin DOMAIN payload \/ IsNull(payload, k)) => e[k] = defaults[k]

\* C14 as stated: createItem and createCategory return and store an entity
\* whose id is the counter value, in which every field of the payload has
\* the payload's value and every optional field the payload omits has its
\* default.
C14_CreateDefaultsAsStated ==
    [][ /\ Called("createItem") =>
            /\ ret'.out = "entity"
            /\ FilledAsStated(ret'.val[1], call'.arg, ItemDefaults, data.currentItemId)
            /\ data'.items = Append(data.items, ret'.val[1])
        /\ Called("createCategory") =>
            /\ ret'.out = "entity"
            /\ FilledAsStated(ret'.val[1], call'.arg, CategoryDefaults, data.currentCategoryId)
            /\ data'.categories = Append(data.categories, ret'.val[1]) ]_vars

\* C14, amended: createItem and createCategory return and store an entity
\* whose id is the counter value, in which every field that the payload
\* carries with a value other than null has that value, and every optional
\* field that the payload omits or carries as null has its default.
C14_CreateDefaults ==
    [][ /\ Called("createItem") =>
            /\ ret'.out = "entity"
            /\ Filled(ret'.val[1], call'.arg, ItemDefaults, data.currentItemId)
            /\ data'.items = Append(data.items, ret'.val[1])
        /\ Called("createCategory") =>
            /\ ret'.out = "entity"
            /\ Filled(ret'.val[1], call'.arg, CategoryDefaults, data.currentCategoryId)
            /\ data'.categories = Append(data.categories, ret'.val[1]) ]_vars

\* an item was created from a payload that carries colorState: null and
\* omits referencePrice, after a category had been created
C14_Witness ==
    /\ call.op = "createItem"
    /\ IsNull(call.arg, "colorState")
    /\ ret.out = "entity"
    /\ ret.val[1].colorState = 0
    /\ ret.val[1].referencePrice = ""
    /\ Len(data.categories) > 3

\* the payloads of the scenario, the entities it expects and the stores it
\* passes through
SnacksInsert == [name |-> "Snacks", order |-> 5]
ChipsInsert == [name |-> "Chips", categoryId |-> 4]

SnacksCategory == [id |-> 4, name |-> "Snacks", order |-> 5, isExpanded |-> TRUE]

ChipsItem ==
    [id |-> 9, categoryId |-> 4, name |-> "Chips", quantity |-> 1, unit |-> "Nos.",
     referencePrice |-> "", colorState |-> 0, checked |-> FALSE, order |-> 0]

AfterSnacks ==
    [getDefaultData EXCEPT !.categories = Append(@, SnacksCategory),
                           !.currentCategoryId = 5]

AfterChips ==
    [AfterSnacks EXCEPT !.items = Append(@, ChipsItem), !.currentItemId = 10]

\* C15: from the seed state, createCategory({name: "Snacks", order: 5})
\* returns the category with id 4; then createItem({categoryId: 4, name:
\* "Chips"}) returns the item with id 9 and the default field values; then
\* deleteCategory(4) returns true, getItem(9) is absent, and the 3 seed
\* categories and 8 seed items are in the store unchanged.
C15_EndToEnd ==
    [][ /\ (Called("createCategory") /\ data = getDefaultData /\ call'.arg = SnacksInsert) =>
            /\ ret' = Entity(SnacksCategory)
            /\ data' = AfterSnacks
        /\ (Called("createItem") /\ data = AfterSnacks /\ call'.arg = ChipsInsert) =>
            /\ ret' = Entity(ChipsItem)
            /\ data' = AfterChips
        /\ (Called("deleteCategory") /\ data = AfterChips /\ call'.id = 4) =>
            /\ ret' = Bool(TRUE)
            /\ getItemById(data', 9).ret = Undefined
            /\ data'.categories = getDefaultData.categories
            /\ data'.items = getDefaultData.items ]_vars

\* the three calls of the scenario were made from the seed state
C15_Witness ==
    /\ call.op = "deleteCategory"
    /\ call.id = 4
    /\ ret = Bool(TRUE)
    /\ nops = 3
    /\ restarts = 0
    /\ issued = [categories |-> {4}, items |-> {9}]
    /\ data.currentCategoryId = 5
    /\ data.currentItemId = 10
    /\ Len(data.categories) = 3
    /\ Len(data.items) = 8

\* the entry of a view without its items: the category's own fields
CategoryOf(entry) == [k \in (DOMAIN entry) \ {"items"} |-> entry[k]]

\* `v` is the view of the store whose listCategories gives `categories`,
\* whose listItemsByCategory(id) gives byCategory[id] and which holds the
\* items `items`
IsViewOf(v, categories, byCategory, items) ==
    /\ Len(v) = Len(categories)
    /\ \A i \in 1..Len(v) :
            /\ "items" \in DOMAIN v[i]
            /\ CategoryOf(v[i]) = categories[i]
            /\ v[i].items = byCategory[categories[i].id]
    /\ \A n \in 1..Len(items) :
            (items[n].categoryId = Null \/ items[n].categoryId \notin Ids(categories)) =>
                \A i \in 1..Len(v) : items[n] \notin Elems(v[i].items)
    /\ \A i, j \in 1..Len(v) :
            i # j => Ids(v[i].items) \cap Ids(v[j].items) = {}

\* C16: a getCategoriesWithItems call that no other call interrupts returns
\* one entry per stored category, in listCategories order, each with the
\* category's fields and items = listItemsByCategory(category.id); an item
\* whose categoryId is null or dangling is under no category and no item is
\* under two; in both stores.
C16_CategoriesWithItems ==
    [][ Called("getCategoriesWithItems") =>
        /\ ret'.out = "list"
        /\ Len(ret'.val) = Len(data.categories)
        /\ IsViewOf(ret'.val, getCategories(data).ret.val,
                    [id \in Ids(data.categories) |-> getItemsByCategory(data, id).ret.val],
                    data.items)
        /\ mret'.out = "list"
        /\ Len(mret'.val) = Len(mem.categories)
        /\ IsViewOf(mret'.val, Mem_getCategories(mem).ret.val,
                    [id \in Ids(mem.categories) |-> Mem_getItemsByCategory(mem, id).ret.val],
                    mem.items) ]_vars

\* the view was taken of a store with a fourth category, stored behind
\* categories of greater order, and an item without a category
C16_Witness ==
    /\ call.op = "getCategoriesWithItems"
    /\ ret.out = "list"
    /\ Len(ret.val) = 4
    /\ ret.val[2].id = 4
    /\ \E n \in 1..Len(data.items) : data.items[n].categoryId = Null

\* C17: as long as no snapshot write has failed, whenever no call is
\* running the snapshot in the backing file (once there is one) has the
\* categories and the items of the store, in their stored order, and both
\* counters.
C17_SnapshotConsistent ==
    (faults = 0 /\ file.kind = "json") =>
        LET snapshot == JSONparse(file.value) IN
        /\ snapshot.categories = data.categories
        /\ snapshot.items = data.items
        /\ snapshot.currentCategoryId = data.currentCategoryId
        /\ snapshot.currentItemId = data.currentItemId

\* C18: on every content of the backing file and under every fault of
\* making the directory, reading and writing, the constructor and every
\* call made afterwards return a result; none throws.
C18_NeverFatal == ret.out # "throw"

\* the item e is in the store d with the categoryId `given`, and the three
\* reads return it
StoredUnder(d, e, given) ==
    /\ e.categoryId = given
    /\ getItemById(d, e.id).ret = Entity(e)
    /\ e \in Elems(getItems(d).ret.val)
    /\ e \in Elems(getItemsByCategory(d, given).ret.val)

\* the categoryId is null or the id of no category of the store d
Orphaned(d, given) == given = Null \/ given \notin Ids(d.categories)

\* C19: createItem with a categoryId that is null or the id of no category,
\* and updateItem of a stored item to such a categoryId, return the item
\* with the categoryId as given, and getItem, listItems and
\* listItemsByCategory(categoryId) of the store they leave return that item.
C19_OrphansPermitted ==
    /\ ( /\ call.op = "createItem"
         /\ "categoryId" \in DOMAIN call.arg
         /\ Orphaned(data, call.arg.categoryId) ) =>
            /\ ret.out = "entity"
            /\ StoredUnder(data, ret.val[1], call.arg.categoryId)
    /\ ( /\ call.op = "updateItem"
         /\ call.id \in Ids(data.items)
         /\ "categoryId" \in DOMAIN call.arg
         /\ Orphaned(data, call.arg.categoryId) ) =>
            /\ ret.out = "entity"
            /\ ret.val[1].id = call.id
            /\ StoredUnder(data, ret.val[1], call.arg.categoryId)

\* an item was created under category id 4 while no category had that id,
\* after a stored item had been moved to no category
C19_Witness ==
    /\ call.op = "createItem"
    /\ ret.out = "entity"
    /\ ret.val[1].categoryId = 4
    /\ 4 \notin Ids(data.categories)
    /\ getItemsByCategory(data, 4).ret.val = <<ret.val[1]>>
    /\ \E n \in 1..Len(data.items) :
            data.items[n].id = 6 /\ data.items[n].categoryId = Null

\* C20: as long as the two stores, both started at the seed state, have been
\* given the same calls with no snapshot write failing, every call has
\* returned the same result from FileStorage as from MemStorage.
C20_Interchangeable ==
    (faults = 0 /\ restarts = 0) => ret = mret

\* the store `after` is the store `before` without the category id and
\* without the items whose categoryId is id: everything else is there with
\* its field values, in the same relative stored order, and the counters
\* are the same
OnlyCascadeRemoved(before, after, id) ==
    /\ after.categories = SelectSeq(before.categories, LAMBDA c : c.id # id)
    /\ Len(after.categories) = Len(before.categories) - 1
    /\ after.items = SelectSeq(before.items, LAMBDA item : item.categoryId # id)
    /\ after.currentCategoryId = before.currentCategoryId
    /\ after.currentItemId = before.currentItemId

\* C21: deleteCategory(id) on an existing category removes exactly that
\* category and exactly the items whose categoryId is id; every other
\* category and item keeps its fields and its relative stored position, and
\* neither counter changes; in both stores.
C21_DeleteCategoryFrame ==
    [][ Called("deleteCategory") =>
        /\ call'.id \in Ids(data.categories) =>
                ret' = Bool(TRUE) /\ OnlyCascadeRemoved(data, data', call'.id)
        /\ call'.id \in Ids(mem.categories) =>
                mret' = Bool(TRUE) /\ OnlyCascadeRemoved(mem, mem', call'.id) ]_vars

\* category 2 was deleted with its remaining items 7 and 8, while item 6,
\* moved out of it before, stayed in the store with no category
C21_Witness ==
    /\ call.op = "deleteCategory"
    /\ call.id = 2
    /\ ret = Bool(TRUE)
    /\ Ids(data.items) = {1, 2, 3, 4, 5, 6}
    /\ \E n \in 1..Len(data.items) :
            data.items[n].id = 6 /\ data.items[n].categoryId = Null

\* the ids of the collection are pairwise distinct, positive and below the
\* counter
IdsBelow(s, counter) ==
    /\ \A i \in 1..Len(s) : s[i].id > 0 /\ s[i].id < counter
    /\ \A i, j \in 1..Len(s) : i # j => s[i].id # s[j].id

IdInvariant(d) ==
    /\ IdsBelow(d.categories, d.currentCategoryId)
    /\ IdsBelow(d.items, d.currentItemId)

\* C22: in every state reached from the seed state the stored category ids
\* are pairwise distinct positive integers below currentCategoryId and the
\* stored item ids pairwise distinct positive integers below currentItemId,
\* and no call makes a counter smaller; in both stores.
C22_IdInvariant ==
    /\ IdInvariant(data) /\ IdInvariant(mem)
    /\ [][ /\ IdInvariant(data') /\ IdInvariant(mem')
           /\ call'.op # "construct" =>
                /\ data'.currentCategoryId >= data.currentCategoryId
                /\ data'.currentItemId >= data.currentItemId
                /\ mem'.currentCategoryId >= mem.currentCategoryId
                /\ mem'.currentItemId >= mem.currentItemId ]_vars

\* item 9 was created and deleted, and the next item created got id 10
C22_Witness ==
    /\ call.op = "createItem"
    /\ ret.out = "entity"
    /\ ret.val[1].id = 10
    /\ 9 \notin Ids(data.items)
    /\ data.currentItemId = 11

\* C23: of the createCategory calls in flight or resumed no two got the
\* same id, likewise of the createItem calls, and every entity a call got
\* is in the store.
C23_ConcurrentCreates ==
    /\ \A i, j \in 1..Len(requests) :
            (i # j /\ requests[i].op = requests[j].op) =>
                requests[i].result.val[1].id # requests[j].result.val[1].id
    /\ \A i \in 1..Len(requests) :
            /\ requests[i].result.out = "entity"
            /\ requests[i].result.val[1] \in
                    IF requests[i].op = "createCategory"
                    THEN Elems(data.categories) ELSE Elems(data.items)

\* three create calls were made before the caller of the first was
\* resumed, two of them createCategory, and the caller of the last was
\* resumed first
C23_Witness ==
    /\ Len(requests) = 3
    /\ requests[1].pc = "awaiting"
    /\ requests[2].pc = "awaiting"
    /\ requests[3].pc = "resumed"
    /\ requests[1].op = "createCategory"
    /\ requests[3].op = "createCategory"
    /\ requests[2].op = "createItem"

\* C24: the view a getCategoriesWithItems call returns, with calls of other
\* requests run at its await points, is the view of one of the store
\* states that existed between its start and its return; in both stores.
C24_SnapshotConsistentView ==
    /\ view.pc = "returned" => view.result \in seen.file
    /\ mview.pc = "returned" => mview.result \in seen.mem

\* C25: a snapshot write is attempted only while the parent directory of the
\* backing file exists: the constructor has made it, if it was absent,
\* before any operation can call saveData().
C25_DirectoryBeforeWrite ==
    call.wr # "none" => dir # "absent"

\* the directory was absent at the start, and createItem wrote its snapshot
C25_Witness ==
    /\ dir = "created"
    /\ call.op = "createItem"
    /\ call.wr = "ok"
    /\ file = JSONText(JSONstringify(data))

\* C28: when a snapshot write has failed earlier and the write of the last
\* mutating call succeeded, the backing file parses to the complete
\* in-memory state, the mutations whose own write failed included.
C28_ConvergenceAfterFault ==
    (~clean /\ call.wr = "ok") =>
        /\ file.kind = "json"
        /\ JSONparse(file.value) = data

\* the write of createCategory failed, the write of the following createItem
\* succeeded, and the file holds the new category too
C28_Witness ==
    /\ ~clean
    /\ nops = 2
    /\ call.op = "createItem"
    /\ call.wr = "ok"
    /\ Len(data.categories) = 4
    /\ file.kind = "json"
    /\ Len(JSONparse(file.value).categories) = 4

\* the stored item of the row
StoredItem == data.items[FindIndex(data.items, row.item.id)]

\* C26: every quantity the row sends in an update is an integer of at least
\* 1, whichever control it comes from (minus and plus buttons, the typed
\* input, the long-press unit conversion).
C26_MinimumQuantity ==
    \A i \in 1..Len(row.inflight) :
        "quantity" \in DOMAIN row.inflight[i] => row.inflight[i].quantity >= 1

\* the color state that four color toggles in a row leave, each one made on
\* the item the one before left
FourToggles(item) ==
    LET one == Spread(item, handleColorToggle(item))
        two == Spread(one, handleColorToggle(one))
        three == Spread(two, handleColorToggle(two))
    IN  Spread(three, handleColorToggle(three))

\* C27: the stored colorState stays in {0,1,2,3}; a color toggle made when
\* the update before it is stored and the row shows the stored item sends
\* (colorState + 1) mod 4; four such toggles give the item back.
C27_ColorCyclic ==
    /\ StoredItem.colorState \in {0, 1, 2, 3}
    /\ FourToggles(StoredItem) = StoredItem
    /\ [][ (/\ row'.clicks = row.clicks + 1
            /\ row.inflight = <<>>
            /\ row.item = StoredItem) =>
                row'.inflight = << [colorState |-> (StoredItem.colorState + 1) % 4] >> ]_vars

\* four toggles, each stored and read back before the next, and the last one
\* stored the color the row started with
C27_Witness ==
    /\ row.clicks = 4
    /\ row.inflight = <<>>
    /\ call.op = "updateItem"
    /\ call.arg = [colorState |-> getDefaultData.items[row.item.id].colorState]
    /\ StoredItem = getDefaultData.items[row.item.id]
    /\ row.item = StoredItem

\* C29: once every update the row has sent is stored, the stored item is
\* the item with each click applied in turn to the stored value, also when
\* clicks were made before the update of the click before was stored and
\* the list fetched again.
C29_EachClickApplies ==
    (row.clicks > 0 /\ row.inflight = <<>>) => StoredItem = row.applied

\* C30: the long-press callback runs only while the press that set its timer
\* is held: once a mouse-up, mouse-leave, touch-end or touch-cancel has been
\* handled, no timer of an earlier press-start runs the callback, and while
\* a press is held only the timer of its last press-start runs it, so at
\* most once.
C30_LongPressOnlyWhileHeld ==
    [][ press'.fired > press.fired =>
            /\ press.last = "start"
            /\ {t.id : t \in press.timers \ press'.timers} = {press.timeoutRef} ]_vars

\* C31: a category added through the home page is the last one of the
\* categories listing, and an item added to a category is the last one of
\* the listing of that category's items, whatever was added and deleted
\* before.
C31_NewEntriesLast ==
    /\ (call.op = "createCategory" /\ ret.out = "entity") =>
            LET listing == getCategories(data).ret.val
            IN  listing[Len(listing)].id = ret.val[1].id
    /\ (call.op = "createItem" /\ ret.out = "entity") =>
            LET listing == getItemsByCategory(data, ret.val[1].categoryId).ret.val
            IN  listing[Len(listing)].id = ret.val[1].id

====
